---- MODULE Spec2Model ----
(***************************************************************************)
(* Model of src/metaheuristic_algorithms.py: the node pool, the fault      *)
(* injector (simulate_failure), the runner (run), the metrics collector    *)
(* and the four allocation strategies (Lion, Bat, Crow, Monarch).          *)
(*                                                                         *)
(* Loads are kept in MIPS as exact numbers.  The only non-integer          *)
(* arithmetic of the source is the nomad phase's 0.3 * current_load; the   *)
(* task sizes and capacities below are multiples of 1000, so the amount    *)
(* stays an integer for the number of nomad migrations the model allows    *)
(* (MaxNomadMoves), and the model computes it exactly.                     *)
(* random.random() < p is modelled by its possible truth values,           *)
(* random.choice / random.sample by every value they can return.           *)
(* Fields the strategies never read (pe, mips, length, priority,           *)
(* energy_coefficient, a territory's best_fitness / best_node) are left    *)
(* out.                                                                    *)
(***************************************************************************)
EXTENDS Integers, Sequences, FiniteSets, TLC

\* ------------------------------------------------------------- bounds
MaxNodes == 5
MaxTasks == 5
MaxNomadMoves == 2
MaxPool == 60

\* Node capacities (4 * randint(2000, 4000)) and task demands
\* (randint(200, 4000)) the model draws from: the even-numbered nodes have
\* the least capacity, MinCapacity, and the odd-numbered nodes share one of
\* Capacities, so a pool holds nodes of equal and of different capacity.
Capacities == {9000}
TaskMips == {4000}
\* Values of self.pulse_rate, in tenths: the constructor's 0.5 and the two
\* ends 0 and 1 a caller can set it to.
PulseRates == {0, 5, 10}

Strategies == {"Lion", "Bat", "Crow", "Monarch"}

\* ------------------------------------------------- program constants
min_nodes_for_operation == 3
MinCapacity == 8000
pride_size_min == 5
lost_work_unit == 1000
default_pulse_rate == 5

VARIABLES
  strategy,         \* which subclass of MetaheuristicAlgorithm this instance is
  num_nodes,        \* self.num_nodes
  num_tasks,        \* self.num_tasks
  capacity,         \* node id -> n['capacity']
  energy_coefficient, \* node id -> n['energy_coefficient'], in thousandths
  current_load,     \* node id -> n['current_load']
  failed,           \* node id -> n['failed']
  completed_tasks,  \* self.completed_tasks
  territories,      \* Lion: sequence of territories, each a sequence of node ids
  nomads,           \* Lion: self.nomads, a sequence of node ids
  memory,           \* Crow: self.memory, a sequence of slots
  pulse_rate,       \* Bat: self.pulse_rate, in tenths
  pc,               \* position of the caller: construct, idle, migrate, settle, loop,
                    \* check, done, aborted
  caller,           \* "api": methods called directly; "run": inside run()
  victim,           \* simulate_failure's local `node` while it migrates its load
  call,             \* the last call that returned: its name, its task's demand, what it returned
  task_idx,         \* run(): number of stream tasks processed so far
  metrics,          \* run(): the mapping calculate_metrics returned
  nomad_moves       \* number of nomad migrations so far (bounded by MaxNomadMoves)

vars == <<strategy, num_nodes, num_tasks, capacity, energy_coefficient, current_load, failed,
          completed_tasks, territories, nomads, memory, pulse_rate, pc, caller,
          victim, call, task_idx, metrics, nomad_moves>>

config == <<strategy, num_nodes, num_tasks, capacity, energy_coefficient, territories,
            pulse_rate>>

\* ------------------------------------------------------------ helpers
Max(a, b) == IF a >= b THEN a ELSE b
Min(a, b) == IF a <= b THEN a ELSE b

Nodes == 0 .. (num_nodes - 1)

RECURSIVE SumOver(_, _)
SumOver(f, S) == IF S = {} THEN 0
                 ELSE LET x == CHOOSE y \in S : TRUE
                      IN f[x] + SumOver(f, S \ {x})

\* The ids of S in increasing order (the order of self.nodes).
RECURSIVE InOrder(_)
InOrder(S) == IF S = {} THEN <<>>
              ELSE LET x == CHOOSE y \in S : \A z \in S : y <= z
                   IN <<x>> \o InOrder(S \ {x})

SeqRange(s) == {s[i] : i \in 1 .. Len(s)}

\* An empty Crow memory slot (None).
None == [node |-> -1, load |-> 0]

NoCall == [name |-> "none", mips |-> 0, ret |-> "None"]
NoMetrics == [avg_response_time |-> <<0, 1>>, throughput |-> <<0, 1>>,
              fault_tolerance |-> <<0, 1>>, energy_consumption |-> 0,
              active_nodes |-> 0, completed_tasks |-> 0]

RECURSIVE GCD(_, _)
GCD(a, b) == IF b = 0 THEN a ELSE GCD(b, a % b)

\* The least common multiple of the numbers of S (1 for the empty set).
RECURSIVE LCM(_)
LCM(S) == IF S = {} THEN 1
          ELSE LET x == CHOOSE y \in S : TRUE
                   r == LCM(S \ {x})
               IN (x \div GCD(x, r)) * r

\* Mutant of active_nodes: the failed flag is not looked at.
active_nodes_ignoring_failed == {n \in Nodes : capacity[n] > 0}

\* [n for n in self.nodes if not n['failed'] and n['capacity'] > 0]
active_nodes == {n \in Nodes : ~failed[n] /\ capacity[n] > 0}

\* Mutant of Fits: the task's demand is left out of the comparison.
Fits_without_demand(n, mips) == current_load[n] <= capacity[n]

\* (n['current_load'] + task['mips_required']) <= n['capacity']
Fits(n, mips) == current_load[n] + mips <= capacity[n]

\* current_load / capacity of a is below that of b (capacities are positive)
UtilLess(a, b) == current_load[a] * capacity[b] < current_load[b] * capacity[a]

\* min(S, key=utilization): the first node of S, in pool order, with the least key
MinUtil(S) == CHOOSE a \in S : \A b \in S :
                 /\ ~UtilLess(b, a)
                 /\ (b < a => UtilLess(a, b))

\* The result of an allocate_task call: what it returned and the state it left.
Outcome(ret, load, nom, mem, moved) ==
  [ret |-> ret, load |-> load, nomads |-> nom, memory |-> mem, moved |-> moved]

Place(n, mips) == [current_load EXCEPT ![n] = @ + mips]

\* ------------------------------------------- random.random() outcomes
\* The truth values `random.random() < p` can take, p = num/den:
\* random() ranges over [0, 1).
RandomBelow(num, den) == {b \in BOOLEAN : IF b THEN num > 0 ELSE num < den}
\* The truth values `random.random() > p` can take.
RandomAbove(num, den) == {b \in BOOLEAN : IF b THEN num < den ELSE num >= 0}

\* ------------------------------------------------------ Bat strategy
\* Mutant of Bat_allocate_task: the random candidate is tried when
\* random() < pulse_rate.
Bat_allocate_task_below(mips) ==
  IF active_nodes = {} THEN {Outcome("False", current_load, nomads, memory, FALSE)}
  ELSE LET best_node == MinUtil(active_nodes)
           byCandidate ==
             IF TRUE \in RandomBelow(pulse_rate, 10)
             THEN {Outcome("True", Place(c, mips), nomads, memory, FALSE) :
                     c \in {a \in active_nodes : Fits(a, mips)}}
             ELSE {}
           reachesBest ==
             \/ FALSE \in RandomBelow(pulse_rate, 10)
             \/ \E c \in active_nodes : ~Fits(c, mips)
           byBest ==
             IF ~reachesBest THEN {}
             ELSE IF Fits(best_node, mips)
                  THEN {Outcome("True", Place(best_node, mips), nomads, memory, FALSE)}
                  ELSE {Outcome("False", current_load, nomads, memory, FALSE)}
       IN byCandidate \cup byBest

\* BatAlgorithm.allocate_task: the random candidate first when
\* random() > pulse_rate and it fits, else the least-utilized node.
Bat_allocate_task(mips) ==
  IF active_nodes = {} THEN {Outcome("False", current_load, nomads, memory, FALSE)}
  ELSE LET best_node == MinUtil(active_nodes)
           byCandidate ==
             IF TRUE \in RandomAbove(pulse_rate, 10)
             THEN {Outcome("True", Place(c, mips), nomads, memory, FALSE) :
                     c \in {a \in active_nodes : Fits(a, mips)}}
             ELSE {}
           \* reached when the random attempt is skipped or its candidate
           \* does not fit
           reachesBest ==
             \/ FALSE \in RandomAbove(pulse_rate, 10)
             \/ \E c \in active_nodes : ~Fits(c, mips)
           byBest ==
             IF ~reachesBest THEN {}
             ELSE IF Fits(best_node, mips)
                  THEN {Outcome("True", Place(best_node, mips), nomads, memory, FALSE)}
                  ELSE {Outcome("False", current_load, nomads, memory, FALSE)}
       IN byCandidate \cup byBest

\* Mutant of Monarch_allocate_task: the chosen node is charged before the
\* capacity test, so a rejected task leaves its demand behind.
Monarch_allocate_task_eager(mips) ==
  IF active_nodes = {} THEN {Outcome("False", current_load, nomads, memory, FALSE)}
  ELSE {Outcome(IF Fits(n, mips) THEN "True" ELSE "False", Place(n, mips),
                nomads, memory, FALSE) : n \in active_nodes}

\* -------------------------------------------------- Monarch strategy
\* MonarchButterflyOptimization.allocate_task: bar / (bar + 1) = 5/6.
Monarch_allocate_task(mips) ==
  IF active_nodes = {} THEN {Outcome("False", current_load, nomads, memory, FALSE)}
  ELSE LET dst == MinUtil(active_nodes)
           target(n) ==
             IF Fits(n, mips)
             THEN Outcome("True", Place(n, mips), nomads, memory, FALSE)
             ELSE Outcome("False", current_load, nomads, memory, FALSE)
           migration == IF TRUE \in RandomBelow(5, 6) THEN {target(dst)} ELSE {}
           adjustment == IF FALSE \in RandomBelow(5, 6)
                         THEN {target(n) : n \in active_nodes} ELSE {}
       IN migration \cup adjustment

\* ----------------------------------------------------- Crow strategy
\* any(self.memory)
AnyMemory(mem) == \E i \in 1 .. Len(mem) : mem[i] # None

\* [{'node': n, 'load': n['current_load']} for n in active_nodes]
SeedMemory ==
  LET act == InOrder(active_nodes)
  IN [i \in 1 .. Len(act) |-> [node |-> act[i], load |-> current_load[act[i]]]]

\* The pool indices at which the refresh loop reads self.memory[i] past its
\* end (Python index i is slot i + 1 here).
OutOfRange(mem) == {i \in active_nodes : i + 1 > Len(mem)}

\* Mutant of RefreshMemory: the remembered loads are left as they are.
RefreshMemory_stale(mem, stop) == mem

\* for i, node in enumerate(self.nodes): the slots refreshed before the loop
\* ends or raises at index `stop`.
RefreshMemory(mem, stop) ==
  [k \in 1 .. Len(mem) |->
     IF (k - 1) \in active_nodes /\ (k - 1) < stop /\ mem[k] # None
     THEN [mem[k] EXCEPT !.load = current_load[k - 1]]
     ELSE mem[k]]

\* m['load'] / m['node']['capacity'] of slot a is below that of slot b
MemLess(mem, a, b) ==
  mem[a].load * capacity[mem[b].node] < mem[b].load * capacity[mem[a].node]

\* CrowSearchAlgorithm.allocate_task
Crow_allocate_task(mips) ==
  IF active_nodes = {} THEN {Outcome("False", current_load, nomads, memory, FALSE)}
  ELSE LET mem1 == IF ~AnyMemory(memory) THEN SeedMemory ELSE memory
           bad == OutOfRange(mem1)
       IN IF bad # {}
          THEN LET stop == CHOOSE i \in bad : \A j \in bad : i <= j
               IN {Outcome("IndexError", current_load, nomads,
                           RefreshMemory(mem1, stop), FALSE)}
          ELSE LET mem2 == RefreshMemory(mem1, num_nodes)
                   valid_memories ==
                     {k \in 1 .. Len(mem2) :
                        /\ mem2[k] # None
                        /\ ~failed[mem2[k].node]
                        /\ capacity[mem2[k].node] > 0}
               IN IF valid_memories = {}
                  THEN {Outcome("False", current_load, nomads, mem2, FALSE)}
                  ELSE LET best == CHOOSE a \in valid_memories :
                                     \A b \in valid_memories :
                                       /\ ~MemLess(mem2, b, a)
                                       /\ (b < a => MemLess(mem2, a, b))
                           node == mem2[best].node
                       IN IF Fits(node, mips)
                          THEN {Outcome("True", Place(node, mips), nomads, mem2, FALSE)}
                          ELSE {Outcome("False", current_load, nomads, mem2, FALSE)}

\* ----------------------------------------------------- Lion strategy
\* self.pride_size = max(5, num_nodes // 4)
pride_size(n) == Max(pride_size_min, n \div 4)

\* LionOptimizationLB._initialize_territories for a pool of n nodes: the
\* slices self.nodes[i:i+pride_size] of at least 2 nodes, or the whole pool.
initialize_territories(n) ==
  LET ps == pride_size(n)
      starts == {i \in 0 .. (n - 1) : i % ps = 0}
      slice(i) == InOrder({k \in 0 .. (n - 1) : i <= k /\ k < i + ps})
      kept == InOrder({i \in starts : Len(slice(i)) >= 2})
      found == [j \in 1 .. Len(kept) |-> slice(kept[j])]
  IN IF found # <<>> THEN found ELSE <<InOrder(0 .. (n - 1))>>

\* _calculate_fitness(a) < _calculate_fitness(b): infinite for a failed
\* node or one without capacity, else current_load / capacity * 100.
FitnessLess(load, a, b) ==
  LET infA == failed[a] \/ capacity[a] <= 0
      infB == failed[b] \/ capacity[b] <= 0
  IN IF infA THEN FALSE
     ELSE IF infB THEN TRUE
     ELSE load[a] * capacity[b] < load[b] * capacity[a]

\* min(S, key=self._calculate_fitness): the first of S in pool order
MinFitness(load, S) == CHOOSE a \in S : \A b \in S :
                         /\ ~FitnessLess(load, b, a)
                         /\ (b < a => FitnessLess(load, a, b))

\* _hunting_phase: the nodes a hunt can place the task on.  A territory is
\* hunted with probability 0.7 (skipping is always possible, so is reaching
\* any later territory); the hunters are any sample of num_hunters active
\* nodes of the territory, the best hunter a least-fitness one of the sample
\* (the sample's order, hence the tie break, is random).
hunting_targets(mips) ==
  {b \in Nodes :
     \E t \in 1 .. Len(territories) :
       LET act == {n \in SeqRange(territories[t]) : ~failed[n] /\ capacity[n] > 0}
           num_hunters == Max(2, Min(Cardinality(act) \div 2, Cardinality(act)))
       IN /\ Cardinality(act) >= 2
          /\ TRUE \in RandomBelow(7, 10)
          /\ \E hunters \in SUBSET act :
               /\ Cardinality(hunters) = num_hunters
               /\ b \in hunters
               /\ \A c \in hunters : ~FitnessLess(current_load, c, b)
               /\ Fits(b, mips)}

\* sorted(active_nodes, key=fitness, reverse=True)[:max(2, num_nodes // 10)]:
\* a stable sort, so equal keys keep pool order.
RECURSIVE SortedByFitnessDesc(_)
SortedByFitnessDesc(S) ==
  IF S = {} THEN <<>>
  ELSE LET x == CHOOSE a \in S : \A b \in S :
                  /\ ~FitnessLess(current_load, a, b)
                  /\ (b < a => FitnessLess(current_load, b, a))
       IN <<x>> \o SortedByFitnessDesc(S \ {x})

nomad_limit == Max(2, num_nodes \div 10)

BuildNomads ==
  LET sorted == SortedByFitnessDesc(active_nodes)
  IN SubSeq(sorted, 1, Min(Len(sorted), nomad_limit))

\* nomad['current_load'] > nomad['capacity'] * self.migration_threshold (0.8)
OverThreshold(n) == 10 * current_load[n] > 8 * capacity[n]

\* [n for n in self.nodes if not n['failed'] and n['capacity'] > 0 and n != nomad]
Recipients(nomad) == active_nodes \ {nomad}

\* Mutant of Migratable10: half of the nomad's load instead of 0.3 of it.
Migratable10_half(nomad, recipient, mips) ==
  Min(5 * current_load[nomad],
      Min(10 * mips, 10 * (capacity[recipient] - current_load[recipient])))

\* 10 * min(nomad.load * 0.3, task.mips_required, recipient.capacity - recipient.load)
Migratable10(nomad, recipient, mips) ==
  Min(3 * current_load[nomad],
      Min(10 * mips, 10 * (capacity[recipient] - current_load[recipient])))

\* The first nomad of the list, from position k on, whose migration moves a
\* positive amount; 0 when there is none.
RECURSIVE FirstMover(_, _, _)
FirstMover(nom, k, mips) ==
  IF k > Len(nom) THEN 0
  ELSE IF /\ OverThreshold(nom[k])
          /\ Recipients(nom[k]) # {}
          /\ Migratable10(nom[k], MinFitness(current_load, Recipients(nom[k])), mips) > 0
       THEN k
       ELSE FirstMover(nom, k + 1, mips)

\* nomad['current_load'] -= migratable; recipient['current_load'] += migratable
MoveLoad(nomad, recipient, amount) ==
  [current_load EXCEPT ![nomad] = @ - amount, ![recipient] = @ + amount]

\* Mutant of nomad_phase_then_fallback: the nomad set is rebuilt on every call.
nomad_phase_rebuilding(mips) ==
  IF active_nodes = {}
  THEN Outcome("False", current_load, nomads, memory, FALSE)
  ELSE LET nom == BuildNomads
           k == FirstMover(nom, 1, mips)
       IN IF k > 0
          THEN LET recipient == MinFitness(current_load, Recipients(nom[k]))
                   m10 == Migratable10(nom[k], recipient, mips)
               IN Outcome("True", MoveLoad(nom[k], recipient, m10 \div 10),
                          nom, memory, TRUE)
          ELSE IF Fits(MinFitness(current_load, active_nodes), mips)
               THEN Outcome("True",
                            Place(MinFitness(current_load, active_nodes), mips),
                            nom, memory, FALSE)
               ELSE Outcome("False", current_load, nom, memory, FALSE)

\* Mutant of nomad_phase_then_fallback: the global fallback is left out.
nomad_phase_without_fallback(mips) ==
  IF nomads = <<>> /\ active_nodes = {}
  THEN Outcome("False", current_load, nomads, memory, FALSE)
  ELSE LET nom == IF nomads = <<>> THEN BuildNomads ELSE nomads
           k == FirstMover(nom, 1, mips)
       IN IF k > 0
          THEN LET recipient == MinFitness(current_load, Recipients(nom[k]))
                   m10 == Migratable10(nom[k], recipient, mips)
               IN Outcome("True", MoveLoad(nom[k], recipient, m10 \div 10),
                          nom, memory, TRUE)
          ELSE Outcome("False", current_load, nom, memory, FALSE)

\* _nomad_phase followed by the global fallback of allocate_task: what
\* happens once the hunting phase has returned False.
nomad_phase_then_fallback(mips) ==
  IF nomads = <<>> /\ active_nodes = {}
  THEN \* _nomad_phase returns False; the fallback finds no active node
       Outcome("False", current_load, nomads, memory, FALSE)
  ELSE LET nom == IF nomads = <<>> THEN BuildNomads ELSE nomads
           k == FirstMover(nom, 1, mips)
       IN IF k > 0
          THEN LET recipient == MinFitness(current_load, Recipients(nom[k]))
                   m10 == Migratable10(nom[k], recipient, mips)
               IN Outcome("True", MoveLoad(nom[k], recipient, m10 \div 10),
                          nom, memory, TRUE)
          ELSE IF active_nodes # {}
                  /\ Fits(MinFitness(current_load, active_nodes), mips)
               THEN Outcome("True",
                            Place(MinFitness(current_load, active_nodes), mips),
                            nom, memory, FALSE)
               ELSE Outcome("False", current_load, nom, memory, FALSE)

\* LionOptimizationLB.allocate_task
Lion_allocate_task(mips) ==
  {Outcome("True", Place(b, mips), nomads, memory, FALSE) : b \in hunting_targets(mips)}
    \cup {nomad_phase_then_fallback(mips)}

\* self.allocate_task(task), dispatched on the instance's class
allocate_task(mips) ==
  CASE strategy = "Lion" -> Lion_allocate_task(mips)
    [] strategy = "Bat" -> Bat_allocate_task(mips)
    [] strategy = "Crow" -> Crow_allocate_task(mips)
    [] strategy = "Monarch" -> Monarch_allocate_task(mips)

\* --------------------------------------------------- fault injector
\* active_nodes = [n for n in self.nodes if not n['failed']]   (line 44)
unfailed_nodes == {n \in Nodes : ~failed[n]}

\* max_failures = max(1, int(self.num_nodes * 0.1))
max_failures == Max(1, num_nodes \div 10)

\* current_failures = sum(1 for n in self.nodes if n['failed'])
current_failures == Cardinality({n \in Nodes : failed[n]})

\* Mutants of the two early returns: each comparison made strict.
BelowOperationalMinimum_strict == Cardinality(unfailed_nodes) < min_nodes_for_operation
FailureCapReached_strict == current_failures > max_failures

\* The two early returns of simulate_failure.
BelowOperationalMinimum == Cardinality(unfailed_nodes) <= min_nodes_for_operation
FailureCapReached == current_failures >= max_failures

\* Mutant of LostTasks: one lost task is counted whatever the load.
LostTasks_one_per_failure(load) == 1

\* int(node['current_load'] / 1000)
LostTasks(load) == load \div lost_work_unit

Returned(name, mips, ret) == [name |-> name, mips |-> mips, ret |-> ret]

\* Where control goes when simulate_failure returns / when a call raises.
AfterFailureCheck == IF caller = "run" THEN "loop" ELSE "idle"
AfterRaise == IF caller = "run" THEN "aborted" ELSE "idle"

\* A nomad migration is taken only while the model can still count it and
\* represent the moved amount exactly.
Representable(o) ==
  o.moved => /\ nomad_moves < MaxNomadMoves
             /\ SumOver(o.load, Nodes) = SumOver(current_load, Nodes)

\* The state an allocate_task call leaves in the strategy's own fields.
ApplyOutcome(o) ==
  /\ Representable(o)
  /\ current_load' = o.load
  /\ nomads' = o.nomads
  /\ memory' = o.memory
  /\ nomad_moves' = IF o.moved THEN nomad_moves + 1 ELSE nomad_moves

\* simulate_failure up to the point where it either returns or is about to
\* call allocate_task for the failed node's load (lines 44-67).
simulate_failure ==
  IF BelowOperationalMinimum
  THEN /\ call' = Returned("simulate_failure", 0, "None")
       /\ pc' = AfterFailureCheck
       /\ UNCHANGED <<failed, victim>>
  ELSE IF FailureCapReached
  THEN /\ call' = Returned("simulate_failure", 0, "None")
       /\ pc' = AfterFailureCheck
       /\ UNCHANGED <<failed, victim>>
  ELSE \E node \in unfailed_nodes : \E hit \in RandomBelow(5, 100) :
         IF ~hit
         THEN /\ call' = Returned("simulate_failure", 0, "None")
              /\ pc' = AfterFailureCheck
              /\ UNCHANGED <<failed, victim>>
         ELSE /\ failed' = [failed EXCEPT ![node] = TRUE]
              /\ IF current_load[node] > 0
                 THEN /\ victim' = node
                      /\ pc' = "migrate"
                      /\ UNCHANGED call
                 ELSE /\ call' = Returned("simulate_failure", 0, "None")
                      /\ pc' = AfterFailureCheck
                      /\ UNCHANGED victim

\* if self.allocate_task(temp_task): the migration attempt (line 68)
Migrate ==
  /\ pc = "migrate"
  /\ \E o \in allocate_task(current_load[victim]) :
       /\ ApplyOutcome(o)
       /\ IF o.ret = "IndexError"
          THEN /\ pc' = AfterRaise
               /\ call' = Returned("simulate_failure", 0, "IndexError")
               /\ victim' = -1
          ELSE /\ pc' = "settle"
               /\ call' = Returned("allocate_task", current_load[victim], o.ret)
               /\ UNCHANGED victim
  /\ UNCHANGED <<config, failed, completed_tasks, caller, task_idx, metrics>>

\* Mutant of Settle: the migrated load is not taken off the failed node.
Settle_without_reset ==
  /\ pc = "settle"
  /\ IF call.ret = "True"
     THEN /\ call' = Returned("simulate_failure", 0, "None")
          /\ UNCHANGED <<current_load, completed_tasks>>
     ELSE /\ completed_tasks' = completed_tasks - LostTasks(current_load[victim])
          /\ call' = Returned("simulate_failure", 0, "None")
          /\ UNCHANGED current_load
  /\ pc' = AfterFailureCheck
  /\ victim' = -1
  /\ UNCHANGED <<config, failed, nomads, memory, caller, task_idx, metrics, nomad_moves>>

\* Mutant of Settle: a node whose load was migrated is made active again.
Settle_reactivating ==
  /\ pc = "settle"
  /\ IF call.ret = "True"
     THEN /\ current_load' = [current_load EXCEPT ![victim] = 0]
          /\ failed' = [failed EXCEPT ![victim] = FALSE]
          /\ call' = Returned("simulate_failure", 0, "None")
          /\ UNCHANGED completed_tasks
     ELSE /\ completed_tasks' = completed_tasks - LostTasks(current_load[victim])
          /\ call' = Returned("simulate_failure", 0, "None")
          /\ UNCHANGED <<current_load, failed>>
  /\ pc' = AfterFailureCheck
  /\ victim' = -1
  /\ UNCHANGED <<config, nomads, memory, caller, task_idx, metrics, nomad_moves>>

\* node['current_load'] = 0, or the lost workload is counted (lines 69-72)
Settle ==
  /\ pc = "settle"
  /\ IF call.ret = "True"
     THEN /\ current_load' = [current_load EXCEPT ![victim] = 0]
          /\ call' = Returned("simulate_failure", 0, "None")
          /\ UNCHANGED completed_tasks
     ELSE /\ completed_tasks' = completed_tasks - LostTasks(current_load[victim])
          /\ call' = Returned("simulate_failure", 0, "None")
          /\ UNCHANGED current_load
  /\ pc' = AfterFailureCheck
  /\ victim' = -1
  /\ UNCHANGED <<config, failed, nomads, memory, caller, task_idx, metrics, nomad_moves>>

\* ------------------------------------------------ direct method calls
\* allocate_task(task) called directly on the instance
CallAllocate ==
  /\ pc = "idle" /\ caller = "api"
  /\ \E mips \in TaskMips : \E o \in allocate_task(mips) :
       /\ ApplyOutcome(o)
       /\ call' = Returned("allocate_task", mips, o.ret)
  /\ UNCHANGED <<config, failed, completed_tasks, pc, caller, victim, task_idx, metrics>>

\* simulate_failure() called directly on the instance
CallSimulateFailure ==
  /\ pc = "idle" /\ caller = "api"
  /\ simulate_failure
  /\ UNCHANGED <<config, current_load, completed_tasks, nomads, memory, caller,
                 task_idx, metrics, nomad_moves>>

\* ---------------------------------------------------------- metrics
\* calculate_metrics: avg_response_time, throughput and fault_tolerance as
\* exact fractions <<numerator, denominator>>, the last two capped at 100 as
\* min(100.0, x) does; energy_consumption in thousandths.
Capped(num, den) == IF num > 100 * den THEN <<100, 1>> ELSE <<num, den>>

\* np.mean of 0.1 + 0.9 * min(1.0, current_load / capacity) over the nodes of
\* S, the utilizations brought to the common denominator den.
MeanResponseTime(S) ==
  LET den == LCM({capacity[n] : n \in S})
      utilization == [n \in S |-> Min(current_load[n], capacity[n]) * (den \div capacity[n])]
  IN <<Cardinality(S) * den + 9 * SumOver(utilization, S), 10 * Cardinality(S) * den>>

calculate_metrics ==
  LET failed_nodes == {n \in Nodes : failed[n]}
      response_nodes == {n \in unfailed_nodes : capacity[n] > 0}
      energy == [n \in unfailed_nodes |-> current_load[n] * energy_coefficient[n]]
      recovered_nodes == Cardinality({n \in failed_nodes : current_load[n] = 0})
      throughput == IF num_tasks > 0 THEN <<completed_tasks * 100, num_tasks>>
                    ELSE <<0, 1>>
      fault_tolerance == IF failed_nodes # {}
                         THEN <<recovered_nodes * 100, Cardinality(failed_nodes)>>
                         ELSE <<100, 1>>
  IN [avg_response_time |-> IF response_nodes # {} THEN MeanResponseTime(response_nodes)
                            ELSE <<1, 2>>,
      throughput |-> Capped(throughput[1], throughput[2]),
      fault_tolerance |-> Capped(fault_tolerance[1], fault_tolerance[2]),
      energy_consumption |-> SumOver(energy, unfailed_nodes),
      active_nodes |-> Cardinality(unfailed_nodes),
      completed_tasks |-> completed_tasks]

\* -------------------------------------------------------------- run
\* self.completed_tasks = 0
RunBegin ==
  /\ pc = "idle" /\ caller = "run"
  /\ completed_tasks' = 0
  /\ task_idx' = 0
  /\ pc' = "loop"
  /\ UNCHANGED <<config, current_load, failed, nomads, memory, caller, victim, call,
                 metrics, nomad_moves>>

\* Mutant of RunAllocate: the task is counted whatever allocate_task returned.
RunAllocate_counts_every_task ==
  /\ pc = "loop" /\ task_idx < num_tasks
  /\ \E mips \in TaskMips : \E o \in allocate_task(mips) :
       /\ ApplyOutcome(o)
       /\ call' = Returned("allocate_task", mips, o.ret)
       /\ completed_tasks' = completed_tasks + 1
       /\ pc' = IF o.ret = "IndexError" THEN "aborted" ELSE "check"
  /\ UNCHANGED <<config, failed, caller, victim, task_idx, metrics>>

\* if self.allocate_task(task): self.completed_tasks += 1
RunAllocate ==
  /\ pc = "loop" /\ task_idx < num_tasks
  /\ \E mips \in TaskMips : \E o \in allocate_task(mips) :
       /\ ApplyOutcome(o)
       /\ call' = Returned("allocate_task", mips, o.ret)
       /\ completed_tasks' = IF o.ret = "True" THEN completed_tasks + 1
                             ELSE completed_tasks
       /\ pc' = IF o.ret = "IndexError" THEN "aborted" ELSE "check"
  /\ UNCHANGED <<config, failed, caller, victim, task_idx, metrics>>

\* if random.random() < 0.1: self.simulate_failure()
RunCheck ==
  /\ pc = "check"
  /\ task_idx' = task_idx + 1
  /\ \E periodic \in RandomBelow(1, 10) :
       IF periodic THEN simulate_failure
       ELSE /\ pc' = "loop"
            /\ UNCHANGED <<failed, victim, call>>
  /\ UNCHANGED <<config, current_load, completed_tasks, nomads, memory, caller,
                 metrics, nomad_moves>>

\* Mutant of RunFinish: the collector clears the counter it has reported.
RunFinish_clearing_counter ==
  /\ pc = "loop" /\ task_idx = num_tasks
  /\ metrics' = calculate_metrics
  /\ completed_tasks' = 0
  /\ pc' = "done"
  /\ UNCHANGED <<config, current_load, failed, nomads, memory,
                 caller, victim, call, task_idx, nomad_moves>>

\* return self.calculate_metrics()
RunFinish ==
  /\ pc = "loop" /\ task_idx = num_tasks
  /\ metrics' = calculate_metrics
  /\ pc' = "done"
  /\ UNCHANGED <<config, current_load, failed, completed_tasks, nomads, memory,
                 caller, victim, call, task_idx, nomad_moves>>

\* calculate_metrics() called again on the instance run() has returned from
CallCalculateMetrics ==
  /\ pc = "done"
  /\ metrics' = calculate_metrics
  /\ call' = Returned("calculate_metrics", 0, "metrics")
  /\ UNCHANGED <<config, current_load, failed, completed_tasks, nomads, memory,
                 pc, caller, victim, task_idx, nomad_moves>>

\* ------------------------------------------------------ construction
\* MetaheuristicAlgorithm.__init__ and the subclass constructors.
Construct ==
  /\ strategy \in Strategies
  /\ \E n \in 0 .. MaxNodes :
       /\ num_nodes = n
       /\ \E odd \in Capacities :
            capacity = [i \in 0 .. (n - 1) |-> IF i % 2 = 0 THEN MinCapacity ELSE odd]
       /\ energy_coefficient = [i \in 0 .. (n - 1) |-> 1 + (i % 3)]
       /\ current_load = [i \in 0 .. (n - 1) |-> 0]
       /\ failed = [i \in 0 .. (n - 1) |-> FALSE]
       /\ territories = initialize_territories(n)
       /\ memory = [i \in 1 .. n |-> None]
  /\ completed_tasks = 0
  /\ nomads = <<>>
  /\ pulse_rate \in (IF strategy = "Bat" THEN PulseRates ELSE {default_pulse_rate})
  /\ pc = "idle"
  /\ victim = -1
  /\ call = NoCall
  /\ task_idx = 0
  /\ metrics = NoMetrics
  /\ nomad_moves = 0

\* LionOptimizationLB.__init__ at the point where the base constructor has
\* built the pool and self.territories is about to be set.
TerritoryInit ==
  /\ strategy = "Lion"
  /\ \E n \in 0 .. MaxPool :
       /\ num_nodes = n
       /\ \E odd \in Capacities :
            capacity = [i \in 0 .. (n - 1) |-> IF i % 2 = 0 THEN MinCapacity ELSE odd]
       /\ energy_coefficient = [i \in 0 .. (n - 1) |-> 1 + (i % 3)]
       /\ current_load = [i \in 0 .. (n - 1) |-> 0]
       /\ failed = [i \in 0 .. (n - 1) |-> FALSE]
       /\ memory = [i \in 1 .. n |-> None]
  /\ territories = <<>>
  /\ num_tasks = 0
  /\ completed_tasks = 0
  /\ nomads = <<>>
  /\ pulse_rate = default_pulse_rate
  /\ pc = "construct"
  /\ caller = "api"
  /\ victim = -1
  /\ call = NoCall
  /\ task_idx = 0
  /\ metrics = NoMetrics
  /\ nomad_moves = 0

\* self.territories = self._initialize_territories()
InitializeTerritories ==
  /\ pc = "construct"
  /\ territories' = initialize_territories(num_nodes)
  /\ pc' = "idle"
  /\ UNCHANGED <<strategy, num_nodes, num_tasks, capacity, energy_coefficient,
                 current_load, failed, completed_tasks, nomads, memory, pulse_rate,
                 caller, victim, call, task_idx, metrics, nomad_moves>>

TerritorySpec == TerritoryInit /\ [][InitializeTerritories]_vars

\* The instance's methods called directly, in any order.
Init ==
  /\ Construct
  /\ num_tasks = 0
  /\ caller = "api"

Next == CallAllocate \/ CallSimulateFailure \/ Migrate \/ Settle

Spec == Init /\ [][Next]_vars

\* One run() of a freshly constructed instance.
RunInit ==
  /\ Construct
  /\ num_tasks \in 0 .. MaxTasks
  /\ caller = "run"

RunNext ==
  \/ RunBegin \/ RunAllocate \/ RunCheck \/ Migrate \/ Settle \/ RunFinish
  \/ CallCalculateMetrics

RunSpec == RunInit /\ [][RunNext]_vars

\* ============================================================ claims
\* A step that is one whole allocate_task call: a direct call, a stream
\* task of run(), or the migration attempt of simulate_failure.
AllocateStep ==
  \/ pc = "idle" /\ pc' = "idle" /\ call'.name = "allocate_task"
  \/ pc = "loop" /\ pc' \in {"check", "aborted"}
  \/ pc = "migrate" /\ pc' = "settle"

\* A step that begins (and, unless it goes on to migrate, ends) a
\* simulate_failure call.
FailureStep ==
  \/ pc = "idle" /\ caller = "api" /\ ~(pc' = "idle" /\ call'.name = "allocate_task")
  \/ pc = "check" /\ (pc' = "migrate" \/ call'.name = "simulate_failure")

TotalLoad(load, S) == SumOver(load, S)

\* C1: no call ever increases the current_load of a node whose failed flag
\* is true, the node simulate_failure has just marked included.
C1_FailedNodeNeverLoaded ==
  [][\A n \in Nodes :
       (failed[n] \/ failed'[n]) => current_load'[n] <= current_load[n]]_vars

\* C1 witness: with a node down, the migration allocation has just placed
\* its load.
C1_Witness ==
  /\ pc = "settle" /\ call.ret = "True"
  /\ failed[victim]
  /\ \E n \in Nodes : ~failed[n] /\ current_load[n] >= call.mips

\* C2: every node always has 0 <= current_load <= capacity.
C2_LoadWithinCapacity ==
  \A n \in Nodes : 0 <= current_load[n] /\ current_load[n] <= capacity[n]

\* C2 witness: after a nomad migration and a node failure, some node is
\* filled exactly to its capacity.
C2_Witness ==
  /\ nomad_moves > 0
  /\ \E n \in Nodes : failed[n]
  /\ \E n \in Nodes : current_load[n] = capacity[n]

\* C3: the number of failed nodes never exceeds max(1, floor(0.1 * numNodes))
\* and no step marks more than one node failed.
C3_FailureCap ==
  /\ [](Cardinality({n \in Nodes : failed[n]}) <= Max(1, num_nodes \div 10))
  /\ [][Cardinality({n \in Nodes : failed'[n]})
          <= Cardinality({n \in Nodes : failed[n]}) + 1]_vars

\* C3 witness: a simulate_failure call has returned with more than 3 nodes
\* still active and the failed-node count at the cap, which alone then keeps
\* further calls from failing a node.
C3_Witness ==
  /\ pc = "idle" /\ call.name = "simulate_failure"
  /\ Cardinality({n \in Nodes : ~failed[n]}) > 3
  /\ Cardinality({n \in Nodes : failed[n]}) = Max(1, num_nodes \div 10)

\* C4: whenever allocate_task(task) returns true, exactly one node's
\* current_load has increased, by exactly task.mips_required, and every
\* other node's current_load is unchanged.
C4_ExactlyOneNodeGainsTask ==
  [][(AllocateStep /\ call'.ret = "True") =>
       \E n \in Nodes :
         /\ current_load'[n] = current_load[n] + call'.mips
         /\ \A m \in Nodes \ {n} : current_load'[m] = current_load[m]]_vars

\* C5: whenever allocate_task(task) returns false, every node's
\* current_load and failed flag are as before the call.
C5_FalseLeavesPoolUnchanged ==
  [][(AllocateStep /\ call'.ret = "False") =>
       (current_load' = current_load /\ failed' = failed)]_vars

\* C5 witness: a direct allocate_task call has returned false on a pool
\* that carries load.
C5_Witness ==
  /\ pc = "idle" /\ call.name = "allocate_task" /\ call.ret = "False"
  /\ \E n \in Nodes : current_load[n] > 0

\* C6: once a node is failed, its current_load is changed by nothing but the
\* reset to 0 that simulate_failure performs after a successful migration.
C6_FailedLoadOnlyReset ==
  [][\A n \in Nodes :
       (failed[n] /\ current_load'[n] # current_load[n]) =>
         /\ pc = "settle" /\ call.ret = "True"
         /\ n = victim
         /\ current_load'[n] = 0]_vars

\* C7: the metrics run() returns have 0 <= throughput <= 100 and
\* 0 <= fault_tolerance <= 100.
C7_MetricsInRange ==
  pc = "done" =>
    /\ 0 <= metrics.throughput[1]
    /\ metrics.throughput[1] <= 100 * metrics.throughput[2]
    /\ 0 <= metrics.fault_tolerance[1]
    /\ metrics.fault_tolerance[1] <= 100 * metrics.fault_tolerance[2]

\* C8: simulate_failure is a no-op whenever at most 3 nodes are active or
\* the failed-node count already meets max(1, floor(0.1 * numNodes)): no
\* failed flag, no load and not completed_tasks changes, and no allocation
\* is called.
C8_GuardedFailureIsNoOp ==
  [][(/\ FailureStep
      /\ \/ Cardinality({n \in Nodes : ~failed[n]}) <= 3
         \/ Cardinality({n \in Nodes : failed[n]}) >= Max(1, num_nodes \div 10))
     => /\ failed' = failed
        /\ current_load' = current_load
        /\ completed_tasks' = completed_tasks
        /\ nomads' = nomads /\ memory' = memory
        /\ pc' # "migrate"]_vars

\* C8 witness: a simulate_failure call has returned with exactly 3 nodes
\* left active beside a failed one whose load was migrated, and nothing
\* was lost.
C8_Witness ==
  /\ pc = "idle" /\ call.name = "simulate_failure"
  /\ Cardinality({n \in Nodes : ~failed[n]}) = 3
  /\ \E n \in Nodes : failed[n] /\ current_load[n] = 0
  /\ \E n \in Nodes : ~failed[n] /\ current_load[n] > 0
  /\ completed_tasks = 0

\* C9: when the migration allocation of a failed node's load L > 0 returns
\* true, the whole of L has been added to the other nodes and the failed
\* node's load is then set to 0, so the pool's total load is preserved.
C9_MigrationConservesLoad ==
  /\ [][(pc = "migrate" /\ pc' = "settle" /\ call'.ret = "True") =>
          /\ current_load'[victim] = current_load[victim]
          /\ TotalLoad(current_load', Nodes \ {victim})
               = TotalLoad(current_load, Nodes \ {victim}) + current_load[victim]]_vars
  /\ [][(pc = "settle" /\ call.ret = "True" /\ pc' # "settle") =>
          current_load'[victim] = 0]_vars

\* C10: when the migration allocation of a failed node's load L > 0 returns
\* false, the failed node keeps current_load = L, completed_tasks drops by
\* exactly floor(L / 1000) and no other node's load changes.
C10_LostMigration ==
  /\ [][(pc = "migrate" /\ pc' = "settle" /\ call'.ret = "False") =>
          (current_load' = current_load /\ call'.mips = current_load[victim])]_vars
  /\ [][(pc = "settle" /\ call.ret = "False" /\ pc' # "settle") =>
          /\ current_load' = current_load
          /\ current_load[victim] = call.mips
          /\ call.mips > 0
          /\ completed_tasks' = completed_tasks - (call.mips \div 1000)]_vars

\* C10 witness: simulate_failure has returned after a migration that could
\* not be placed, and at least one task's worth of work was lost.
C10_Witness ==
  /\ pc = "idle" /\ call.name = "simulate_failure"
  /\ \E n \in Nodes :
       /\ failed[n] /\ current_load[n] >= 1000
       /\ completed_tasks = 0 - (current_load[n] \div 1000)

\* C11: for every strategy, when a node is failed with load L > 0 while
\* another active node has spare capacity >= L, the migration step leaves
\* the failed node with current_load = 0.
C11_MigrationSucceedsWhenRoomExists ==
  /\ [][(/\ pc = "migrate"
          /\ \E n \in active_nodes \ {victim} :
               capacity[n] - current_load[n] >= current_load[victim])
         => (pc' = "settle" /\ call'.ret = "True")]_vars
  /\ [][(pc = "settle" /\ pc' # "settle" /\ call.ret = "True")
         => (failed'[victim] /\ current_load'[victim] = 0)]_vars

\* C12: with the Bat strategy and pulse_rate = 0 every successful
\* allocate_task places the task on a node whose utilization was minimal
\* among the active nodes before the call.
C12_PulseRateZeroPlacesOnLeastUtilized ==
  [][(strategy = "Bat" /\ pulse_rate = 0 /\ AllocateStep /\ call'.ret = "True") =>
       \E n \in active_nodes :
         /\ current_load'[n] = current_load[n] + call'.mips
         /\ \A m \in active_nodes : ~UtilLess(m, n)]_vars

\* C12 as amended: with the Bat strategy and pulse_rate = 1 the random-first
\* attempt is never taken and every successful allocate_task places the
\* task on a node whose utilization was minimal among the active nodes
\* before the call.
C12_PulseRateOnePlacesOnLeastUtilized ==
  [][(strategy = "Bat" /\ pulse_rate = 10 /\ AllocateStep /\ call'.ret = "True") =>
       \E n \in active_nodes :
         /\ current_load'[n] = current_load[n] + call'.mips
         /\ \A m \in Nodes \ {n} : current_load'[m] = current_load[m]
         /\ \A m \in active_nodes : ~UtilLess(m, n)]_vars

\* C12 witness: a Bat instance with pulse_rate = 1 has just placed a task
\* on a pool whose active nodes carried different utilizations, one of them
\* unable to take the task.
C12_Witness ==
  /\ strategy = "Bat" /\ pulse_rate = 10
  /\ pc = "idle" /\ call.name = "allocate_task" /\ call.ret = "True"
  /\ \E n \in active_nodes : current_load[n] + call.mips > capacity[n]
  /\ \E n, m \in active_nodes : UtilLess(n, m) /\ current_load[n] > 0

\* C13: for every strategy, a run with num_nodes = 1 and num_tasks = 1 (the
\* node's capacity is at least the task's demand) ends with the task placed,
\* completed_tasks = 1 and throughput = 100; the Lion pool is the single
\* fallback territory.
C13_SingleNodeSingleTask ==
  (pc = "done" /\ num_nodes = 1 /\ num_tasks = 1) =>
    /\ completed_tasks = 1
    /\ metrics.completed_tasks = 1
    /\ metrics.throughput = <<100, 1>>
    /\ current_load[0] > 0 /\ current_load[0] <= capacity[0]
    /\ strategy = "Lion" => territories = << <<0>> >>

\* C13 witness: a Lion run of one task on one node has returned its metrics.
C13_Witness ==
  /\ pc = "done" /\ num_nodes = 1 /\ num_tasks = 1
  /\ strategy = "Lion"
  /\ nomads = <<0>>

\* An upper bound on the number of steps run() has left: four per stream
\* task still to process (allocate, check, migrate, settle) and the return.
RunStepsLeft ==
  CASE pc = "idle" -> 4 * num_tasks + 2
    [] pc = "loop" -> 4 * (num_tasks - task_idx) + 1
    [] pc = "check" -> 4 * (num_tasks - task_idx)
    [] pc = "migrate" -> 4 * (num_tasks - task_idx) + 3
    [] pc = "settle" -> 4 * (num_tasks - task_idx) + 2
    [] OTHER -> 0

\* C14: run() always terminates (no call raises and every step brings the
\* return nearer); it makes exactly one allocate_task attempt per stream
\* task, in order, each followed by at most one simulate_failure call, which
\* makes at most one further allocate_task and does not recurse;
\* completed_tasks is incremented exactly when the stream task's allocation
\* returned true; the metrics are returned only after the whole stream.
C14_RunTerminates ==
  /\ [](pc # "aborted" /\ RunStepsLeft >= 0 /\ task_idx <= num_tasks)
  /\ [][pc # "done" => RunStepsLeft' < RunStepsLeft]_vars
  /\ [][(pc = "loop" /\ pc' # "done") =>
          /\ task_idx < num_tasks /\ task_idx' = task_idx
          /\ pc' = "check" /\ call'.name = "allocate_task"
          /\ completed_tasks' = completed_tasks + (IF call'.ret = "True" THEN 1 ELSE 0)]_vars
  /\ [][pc = "check" =>
          /\ task_idx' = task_idx + 1
          /\ pc' \in {"loop", "migrate"}
          /\ completed_tasks' = completed_tasks /\ current_load' = current_load]_vars
  /\ [][pc = "migrate" =>
          /\ pc' = "settle" /\ call'.name = "allocate_task"
          /\ task_idx' = task_idx /\ completed_tasks' = completed_tasks]_vars
  /\ [][pc = "settle" =>
          /\ pc' = "loop" /\ task_idx' = task_idx
          /\ completed_tasks' <= completed_tasks]_vars
  /\ [][(pc # "done" /\ pc' = "done") =>
          /\ pc = "loop" /\ task_idx = num_tasks
          /\ UNCHANGED <<current_load, failed, completed_tasks, task_idx>>]_vars

\* C14 witness: a run of at least three tasks has returned its metrics
\* after a node failed, with a task rejected or work lost on the way.
C14_Witness ==
  /\ pc = "done" /\ task_idx = num_tasks /\ num_tasks >= 3
  /\ \E n \in Nodes : failed[n]
  /\ completed_tasks < num_tasks
  /\ metrics.completed_tasks = completed_tasks

\* C15: a node that has been marked failed is reset by migration/recovery
\* to current_load = 0 and failed = false: after a successful migration of
\* its load the node is active again.
C15_MigratedNodeIsActiveAgain ==
  [][(pc = "settle" /\ call.ret = "True" /\ pc' # "settle") =>
       (current_load'[victim] = 0 /\ ~failed'[victim])]_vars

\* C15 as amended: a node that has been marked failed stays failed; a
\* successful migration of its load resets its current_load to 0 and leaves
\* it failed, so it is not among the active nodes afterwards.
C15_FailedNodeStaysFailed ==
  /\ [][\A n \in Nodes : failed[n] => failed'[n]]_vars
  /\ [][(pc = "settle" /\ call.ret = "True" /\ pc' # "settle") =>
          /\ current_load'[victim] = 0
          /\ failed'[victim]
          /\ victim \notin {n \in Nodes : ~failed'[n] /\ capacity'[n] > 0}]_vars

\* C15 witness: a Crow node that carried load when last remembered has
\* failed, its load was migrated and reset to 0, and it is still failed
\* after a later allocation.
C15_Witness ==
  /\ strategy = "Crow"
  /\ pc = "idle" /\ call.name = "allocate_task"
  /\ \E n \in Nodes :
       /\ failed[n] /\ current_load[n] = 0
       /\ n + 1 <= Len(memory) /\ memory[n + 1] # None /\ memory[n + 1].load > 0

\* C16: failure injection is suppressed whenever marking one more node
\* failed would leave the active-node count at or below 3: no
\* simulate_failure call that marks a node failed ends with 3 or fewer
\* active nodes.
C16_FailureLeavesMoreThanMinimum ==
  [][(\E n \in Nodes : failed'[n] /\ ~failed[n]) =>
       Cardinality({n \in Nodes : ~failed'[n]}) > 3]_vars

\* C16 as amended: failure injection is suppressed whenever marking one
\* more node failed would leave fewer than 3 active nodes: a node is marked
\* failed only when more than 3 nodes are active, and no simulate_failure
\* call that marks a node failed ends with fewer than 3 active nodes.
C16_FailureLeavesAtLeastMinimum ==
  [][(\E n \in Nodes : failed'[n] /\ ~failed[n]) =>
       /\ Cardinality({n \in Nodes : ~failed[n]}) > 3
       /\ Cardinality({n \in Nodes : ~failed'[n]}) >= 3]_vars

\* C16 witness: simulate_failure has just marked a loaded node failed and
\* exactly 3 nodes are left active.
C16_Witness ==
  /\ pc = "migrate" /\ failed[victim]
  /\ Cardinality({n \in Nodes : ~failed[n]}) = 3

\* C17: calculate_metrics is a pure reduction: it changes no node field and
\* not completed_tasks, and a second call on the unchanged final state
\* returns the same values for all six keys as the first.
C17_MetricsArePure ==
  /\ [][metrics' # metrics =>
          UNCHANGED <<capacity, energy_coefficient, current_load, failed,
                      completed_tasks, nomads, memory, num_tasks>>]_vars
  /\ [][(pc = "done" /\ call'.name = "calculate_metrics") =>
          /\ metrics' = metrics
          /\ DOMAIN metrics' = {"avg_response_time", "throughput", "fault_tolerance",
                                "energy_consumption", "active_nodes", "completed_tasks"}
          /\ UNCHANGED <<capacity, energy_coefficient, current_load, failed,
                         completed_tasks, nomads, memory, num_tasks>>]_vars

\* C17 witness: calculate_metrics has been called a second time after a run
\* that placed tasks, failed a node and lost its work.
C17_Witness ==
  /\ pc = "done" /\ call.name = "calculate_metrics"
  /\ metrics.completed_tasks < 0
  /\ metrics.active_nodes < num_nodes
  /\ metrics.energy_consumption > 0
  /\ metrics.avg_response_time[1] * 10 > metrics.avg_response_time[2]

\* C18: when the Lion nomad phase returns true it has moved exactly
\* m = min(0.3 * nomad.current_load, task.mips_required, recipient spare) > 0
\* from one nomad whose load exceeds 0.8 of its capacity to the fittest other
\* active node; the pool's total load is unchanged (the hunt placed nothing,
\* the task's demand is not placed, the global fallback is not run) and
\* allocate_task reports success.
C18_NomadPhaseMovesLoad ==
  [][(nomad_moves' # nomad_moves) =>
       /\ strategy = "Lion" /\ AllocateStep /\ call'.ret = "True"
       /\ TotalLoad(current_load', Nodes) = TotalLoad(current_load, Nodes)
       /\ \E nomad \in SeqRange(nomads') : \E recipient \in active_nodes \ {nomad} :
            LET m10 == Min(3 * current_load[nomad],
                           Min(10 * call'.mips,
                               10 * (capacity[recipient] - current_load[recipient])))
            IN /\ 10 * current_load[nomad] > 8 * capacity[nomad]
               /\ \A o \in active_nodes \ {nomad} : ~FitnessLess(current_load, o, recipient)
               /\ m10 > 0
               /\ 10 * (current_load[nomad] - current_load'[nomad]) = m10
               /\ 10 * (current_load'[recipient] - current_load[recipient]) = m10
               /\ \A o \in Nodes \ {nomad, recipient} :
                    current_load'[o] = current_load[o]]_vars

\* C18 witness: a Lion allocate_task has returned true after its nomad
\* phase moved part of a nomad's load, leaving loads no placement produces.
C18_Witness ==
  /\ strategy = "Lion" /\ nomad_moves = 1
  /\ pc = "idle" /\ call.name = "allocate_task" /\ call.ret = "True"
  /\ \E n \in SeqRange(nomads) : current_load[n] % 4000 # 0
  /\ TotalLoad(current_load, Nodes) % 4000 = 0

\* C19: for every num_nodes >= 1 the Lion territories built at construction
\* partition the pool into contiguous groups of pride_size nodes: every node
\* is in exactly one territory and every territory has at least 2 nodes,
\* unless no group of 2 can be formed and the single territory is the pool.
C19_TerritoriesPartitionPool ==
  (pc = "idle" /\ strategy = "Lion" /\ num_nodes >= 1) =>
    /\ \A n \in Nodes :
         Cardinality({t \in 1 .. Len(territories) : n \in SeqRange(territories[t])}) = 1
    /\ \A t \in 1 .. Len(territories) :
         /\ Len(territories[t]) <= Max(5, num_nodes \div 4)
         /\ \A i \in 1 .. Len(territories[t]) :
              territories[t][i] = territories[t][1] + (i - 1)
    /\ \/ \A t \in 1 .. Len(territories) : Len(territories[t]) >= 2
       \/ territories = <<InOrder(Nodes)>>

\* C20: the Lion nomad set is built once: it is empty until the first nomad
\* phase that sees an active node, is then set to at most
\* max(2, num_nodes // 10) of the nodes active at that moment, those of
\* highest load/capacity, and its membership never changes afterwards.
C20_NomadsBuiltOnce ==
  /\ [][nomads # <<>> => nomads' = nomads]_vars
  /\ [][(nomads = <<>> /\ nomads' # <<>>) =>
          /\ strategy = "Lion" /\ AllocateStep
          /\ Len(nomads') <= Max(2, num_nodes \div 10)
          /\ Len(nomads') = Cardinality(SeqRange(nomads'))
          /\ SeqRange(nomads') \subseteq active_nodes
          /\ \A m \in SeqRange(nomads') : \A o \in active_nodes \ SeqRange(nomads') :
               ~FitnessLess(current_load, m, o)]_vars
  /\ [][(strategy = "Lion" /\ AllocateStep /\ nomads' = <<>>) =>
          (active_nodes = {} \/ current_load' # current_load)]_vars

\* C20 witness: the nomad set is still the one first built although one of
\* its members has failed and an active node outside it carries more load
\* than a member.
C20_Witness ==
  /\ strategy = "Lion" /\ nomads # <<>>
  /\ \E m \in SeqRange(nomads) : failed[m]
  /\ \E m \in SeqRange(nomads) : \E o \in active_nodes \ SeqRange(nomads) :
       ~failed[m] /\ UtilLess(m, o)

\* C21: Crow within a run: every successful allocate_task places the task
\* on an active node whose live utilization is minimal among the active
\* nodes at call time (the remembered loads of the candidate slots are the
\* live ones), and the call returns false exactly when that node lacks
\* spare capacity for the task.
C21_CrowPlacesOnLeastUtilized ==
  [][(strategy = "Crow" /\ AllocateStep /\ active_nodes # {}) =>
       /\ call'.ret \in {"True", "False"}
       /\ call'.ret = "True" <=>
            current_load[MinUtil(active_nodes)] + call'.mips
              <= capacity[MinUtil(active_nodes)]
       /\ call'.ret = "True" =>
            \E n \in active_nodes :
              /\ current_load'[n] = current_load[n] + call'.mips
              /\ \A m \in Nodes \ {n} : current_load'[m] = current_load[m]
              /\ \A m \in active_nodes : ~UtilLess(m, n)
       /\ call'.ret = "False" => current_load' = current_load
       /\ \A n \in active_nodes :
            /\ n + 1 <= Len(memory')
            /\ memory'[n + 1] = [node |-> n, load |-> current_load[n]]]_vars

\* C21 witness: in a Crow run a node has failed and the migration of its
\* load has just been placed, on a pool whose active nodes all carry load
\* and differ in utilization.
C21_Witness ==
  /\ strategy = "Crow" /\ caller = "run"
  /\ pc = "settle" /\ call.name = "allocate_task" /\ call.ret = "True"
  /\ failed[victim] /\ memory[victim + 1].load > 0
  /\ \A n \in active_nodes : current_load[n] > 0
  /\ \E n, m \in active_nodes : UtilLess(n, m)

\* C22: the Crow memory keeps one slot per original node-pool index: after
\* any sequence of simulate_failure and allocate_task calls, failures before
\* the first allocation included, it has exactly num_nodes slots, every
\* non-empty slot i refers to node i, and the refresh never indexes outside
\* the memory.
C22_CrowMemoryOneSlotPerNode ==
  strategy = "Crow" =>
    /\ Len(memory) = num_nodes
    /\ \A i \in 1 .. Len(memory) : memory[i] # None => memory[i].node = i - 1
    /\ call.ret # "IndexError"

\* C23: load conservation for Bat, Crow and Monarch in a run: the total
\* current_load over all nodes, active and failed, is 0 before the run,
\* grows by mips_required exactly when a stream task's allocate_task
\* returns true, and is the same after a simulate_failure call as before
\* it, whether the migration succeeded or not; so it always equals the sum
\* of mips_required of the stream tasks placed so far.
C23_LoadConservation ==
  /\ []((strategy # "Lion" /\ pc = "idle") => TotalLoad(current_load, Nodes) = 0)
  /\ [][(strategy # "Lion" /\ pc \in {"idle", "check", "done"}) =>
          TotalLoad(current_load', Nodes) = TotalLoad(current_load, Nodes)]_vars
  /\ [][(strategy # "Lion" /\ pc = "loop" /\ pc' # "done") =>
          TotalLoad(current_load', Nodes)
            = TotalLoad(current_load, Nodes)
                + (IF call'.ret = "True" THEN call'.mips ELSE 0)]_vars
  /\ [][(strategy # "Lion" /\ pc = "migrate") =>
          /\ current_load'[victim] = current_load[victim]
          /\ call'.mips = current_load[victim]
          /\ TotalLoad(current_load', Nodes)
               = TotalLoad(current_load, Nodes)
                   + (IF call'.ret = "True" THEN current_load[victim] ELSE 0)]_vars
  /\ [][(strategy # "Lion" /\ pc = "settle") =>
          TotalLoad(current_load', Nodes)
            = TotalLoad(current_load, Nodes)
                - (IF call.ret = "True" THEN call.mips ELSE 0)]_vars

\* C23 witness: a Bat, Crow or Monarch run has ended after a failure whose
\* migration could not be placed: the failed node still holds its load and
\* the pool holds more than completed_tasks accounts for.
C23_Witness ==
  /\ strategy # "Lion" /\ pc = "done"
  /\ \E n \in Nodes : failed[n] /\ current_load[n] > 0
  /\ \E n \in Nodes : ~failed[n] /\ current_load[n] > 0
  /\ completed_tasks < 0
====
